---- MODULE Spec2Model ----
(***************************************************************************)
(* Model of the corpus explorer of keysharp: the n-gram core               *)
(*   analysis/ngrams.ts  (src/unnamed/part_000)                            *)
(* and its consumers, the table display (ui/analysis.ts, in                *)
(* src/unnamed/part_002) and the CSV export (export/csv.ts, in             *)
(* src/unnamed/part_001, and handleExportCSV of index.ts), the locator     *)
(* state (url-state/serializer.ts, url-state/index.ts and the deserializer *)
(* in src/unnamed/part_002) and the event handlers of                      *)
(* src/features/corpus-explorer/index.ts.                                  *)
(* A string is a sequence of UTF-16 code units (naturals), as in the       *)
(* JavaScript source: text[i] is one code unit and text.length counts      *)
(* code units.  A Map is a sequence of <<key, count>> entries in insertion *)
(* order, which is the order Map.prototype.entries() iterates in.          *)
(***************************************************************************)
EXTENDS Integers, Sequences, FiniteSets, TLC

\* Longest corpus text explored.
MaxLen == 3

\* Longest corpus text of a session of repeated calls, and the number of
\* calls that follow the first one.
MaxCallLen == 1

MaxCalls == 2

\* Largest result limit of the search settings.
MaxLimit == 2

\* Most preset loads started from the locator that are in flight at once.
MaxPending == 1

\* Code units a corpus text is drawn from:
\*   32 " "   59 ";"   65 "A"   66 "B"   95 "_"   97 "a"   233 "e-acute"
\*   894 U+037E GREEK QUESTION MARK, canonically equivalent to ";"
Alphabet == {32, 59, 65, 66, 95, 97, 233, 894}

\* Further corpora: "ab ab", the documented end-to-end example; "aaBB", whose
\* two 3-character windows have the same first and third character; and
\* U+1F600, one character outside the Basic Multilingual Plane, which a
\* string holds as the surrogate pair D83D DE00.
ExampleTexts == {<<97, 98, 32, 97, 98>>, <<97, 97, 66, 66>>, <<55357, 56832>>}

Texts == UNION {[1..n -> Alphabet] : n \in 0..MaxLen} \cup ExampleTexts

CallTexts == UNION {[1..n -> Alphabet] : n \in 0..MaxCallLen}

FilterSettingsSet ==
    [filterWhitespace : BOOLEAN, filterPunctuation : BOOLEAN, caseSensitive : BOOLEAN]

NGramTypes == {"monograms", "bigrams", "trigrams", "skipgrams", "words"}

VARIABLES
    text,        \* the corpus handed to the core
    filters,     \* the FilterSettings handed to the core
    caseFirst,   \* case ordering of the runtime's default collation locale
    rawCounts,   \* calculateFilteredNGrams' local: the value of calculateNGrams(text)
    result,      \* value returned by calculateFilteredNGrams(text, filters)
    pc,          \* position of the call: "start", "scanned" or "done"
    calls,       \* number of earlier calls that have returned
    selectedType,    \* the table type the consumers show and export
    searchSettings,  \* the SearchSettings the consumers apply
    tableData,       \* createAnalysisDisplay: the rows handed to createNGramTable
    exportData,      \* handleExportCSV: the rows handed to exportToCSV
    csvContent,      \* exportToCSV: the content of the downloaded file
    currentState,    \* index.ts: the module-level CorpusExplorerState
    location,        \* window.location.search, as its list of parameters
    params,          \* the URLSearchParams returned by serializeToURL
    restored,        \* the state restored from params
    analysisSection, \* index.ts: analysisSection is not null
    exportButton,    \* the controls panel shows the export button
    pendingLoads,    \* names of the preset loads started from the locator
    event            \* the handler that ran last

coreVars == <<text, filters, caseFirst, rawCounts, result, pc, calls>>

consumerVars == <<selectedType, searchSettings, tableData, exportData, csvContent>>

explorerVars ==
    <<currentState, location, params, restored, analysisSection, exportButton,
      pendingLoads, event>>

vars == <<coreVars, consumerVars, explorerVars>>

\* A value that is not there yet, and one that is.
None == <<>>

Some(x) == <<x>>

----------------------------------------------------------------------------
(* Map<string, number> *)

MapHas(m, k) == \E i \in 1..Len(m) : m[i][1] = k

MapIndex(m, k) == CHOOSE i \in 1..Len(m) : m[i][1] = k

\* m.get(k) || 0
MapGet(m, k) == IF MapHas(m, k) THEN m[MapIndex(m, k)][2] ELSE 0

\* m.set(k, v): an existing key keeps its position, a new key goes last
MapSet(m, k, v) ==
    IF MapHas(m, k) THEN [m EXCEPT ![MapIndex(m, k)] = <<k, v>>]
    ELSE Append(m, <<k, v>>)

MapKeys(m) == {m[i][1] : i \in 1..Len(m)}

----------------------------------------------------------------------------
(* Character classes of the regular expressions (no u flag) *)

\* /\s/
WhitespaceUnits ==
    {9, 10, 11, 12, 13, 32, 160, 5760, 8232, 8233, 8239, 8287, 12288, 65279}
        \cup (8192..8202)

\* /\w/ = [A-Za-z0-9_]
WordUnits == (48..57) \cup (65..90) \cup {95} \cup (97..122)

isWhitespace(char) == char \in WhitespaceUnits

----------------------------------------------------------------------------
(* calculateNGrams: the scan *)

InitScan ==
    [monograms |-> <<>>, bigrams |-> <<>>, trigrams |-> <<>>,
     skipgrams |-> <<>>, words |-> <<>>, currentWord |-> <<>>]

\* faulty variant: forgets the previous count of the character
CountMonogram_NoAccumulate(st, txt, i) ==
    [st EXCEPT !.monograms = MapSet(@, <<txt[i + 1]>>, 1)]

CountMonogram(st, txt, i) ==
    LET char == <<txt[i + 1]>>
    IN [st EXCEPT !.monograms = MapSet(@, char, MapGet(@, char) + 1)]

\* faulty variant: guards the bigram with the trigram's index check
CountBigram_TrigramGuard(st, txt, i) ==
    IF i + 2 < Len(txt)
    THEN LET bigram == <<txt[i + 1], txt[i + 2]>>
         IN [st EXCEPT !.bigrams = MapSet(@, bigram, MapGet(@, bigram) + 1)]
    ELSE st

CountBigram(st, txt, i) ==
    IF i + 1 < Len(txt)
    THEN LET bigram == <<txt[i + 1], txt[i + 2]>>
         IN [st EXCEPT !.bigrams = MapSet(@, bigram, MapGet(@, bigram) + 1)]
    ELSE st

\* faulty variant: the skipgram takes the middle character, not the third
CountTrigramAndSkipgram_Adjacent(st, txt, i) ==
    IF i + 2 < Len(txt)
    THEN LET trigram == <<txt[i + 1], txt[i + 2], txt[i + 3]>>
             skipgram == <<txt[i + 1], txt[i + 2]>>
         IN [st EXCEPT !.trigrams = MapSet(@, trigram, MapGet(@, trigram) + 1),
                       !.skipgrams = MapSet(@, skipgram, MapGet(@, skipgram) + 1)]
    ELSE st

CountTrigramAndSkipgram(st, txt, i) ==
    IF i + 2 < Len(txt)
    THEN LET trigram == <<txt[i + 1], txt[i + 2], txt[i + 3]>>
             skipgram == <<txt[i + 1], txt[i + 3]>>
         IN [st EXCEPT !.trigrams = MapSet(@, trigram, MapGet(@, trigram) + 1),
                       !.skipgrams = MapSet(@, skipgram, MapGet(@, skipgram) + 1)]
    ELSE st

ExtractWord(st, char) ==
    IF isWhitespace(char)
    THEN IF Len(st.currentWord) > 0
         THEN [st EXCEPT !.words = MapSet(@, st.currentWord, MapGet(@, st.currentWord) + 1),
                         !.currentWord = <<>>]
         ELSE st
    ELSE [st EXCEPT !.currentWord = Append(@, char)]

LoopBody(st, txt, i) ==
    ExtractWord(
        CountTrigramAndSkipgram(CountBigram(CountMonogram(st, txt, i), txt, i), txt, i),
        txt[i + 1])

RECURSIVE ScanLoop(_, _, _)
ScanLoop(st, txt, i) ==
    IF i < Len(txt) THEN ScanLoop(LoopBody(st, txt, i), txt, i + 1) ELSE st

\* faulty variant: drops the flush after the loop
FinalWord_NoFlush(st) == st

FinalWord(st) ==
    IF Len(st.currentWord) > 0
    THEN [st EXCEPT !.words = MapSet(@, st.currentWord, MapGet(@, st.currentWord) + 1)]
    ELSE st

calculateNGrams(txt) ==
    LET st == FinalWord(ScanLoop(InitScan, txt, 0))
    IN [monograms |-> st.monograms, bigrams |-> st.bigrams, trigrams |-> st.trigrams,
        skipgrams |-> st.skipgrams, words |-> st.words]

----------------------------------------------------------------------------
(* filterAndReaggregate *)

\* faulty variant: never finds whitespace
containsWhitespace_Never(sequence) == FALSE

\* /\s/.test(sequence)
containsWhitespace(sequence) ==
    \E i \in 1..Len(sequence) : sequence[i] \in WhitespaceUnits

\* /[^\w\s]/.test(sequence)
containsPunctuation(sequence) ==
    \E i \in 1..Len(sequence) :
        sequence[i] \notin WordUnits /\ sequence[i] \notin WhitespaceUnits

\* String.prototype.toLowerCase on one code unit of Basic Latin / Latin-1
ToLowerUnit(c) ==
    IF c \in 65..90 \/ (c \in 192..222 /\ c # 215) THEN c + 32 ELSE c

toLowerCase(sequence) == [i \in 1..Len(sequence) |-> ToLowerUnit(sequence[i])]

\* faulty variant: never folds case
normalizeSequence_Identity(sequence, caseSensitive) == sequence

normalizeSequence(sequence, caseSensitive) ==
    IF caseSensitive THEN sequence ELSE toLowerCase(sequence)

\* faulty variant: overwrites the entry instead of adding to it
AddToFiltered_Overwrite(filtered, normalized, frequency) ==
    MapSet(filtered, normalized, frequency)

\* filtered.set(normalized, (filtered.get(normalized) || 0) + frequency)
AddToFiltered(filtered, normalized, frequency) ==
    LET existingCount == MapGet(filtered, normalized)
    IN MapSet(filtered, normalized, existingCount + frequency)

\* faulty variant: counts surviving keys instead of their occurrences
AddToTotal_CountKeys(total, frequency) == total + 1

\* total += frequency
AddToTotal(total, frequency) == total + frequency

\* one iteration of the for-of loop over counts.entries()
FilterStep(acc, entry, flt) ==
    LET sequence == entry[1]
        frequency == entry[2]
    IN IF flt.filterWhitespace /\ containsWhitespace(sequence) THEN acc
       ELSE IF flt.filterPunctuation /\ containsPunctuation(sequence) THEN acc
       ELSE LET normalized == normalizeSequence(sequence, flt.caseSensitive)
            IN [map |-> AddToFiltered(acc.map, normalized, frequency),
                total |-> AddToTotal(acc.total, frequency)]

RECURSIVE FilterLoop(_, _, _, _)
FilterLoop(acc, counts, i, flt) ==
    IF i <= Len(counts)
    THEN FilterLoop(FilterStep(acc, counts[i], flt), counts, i + 1, flt)
    ELSE acc

filterAndReaggregate(counts, flt) ==
    FilterLoop([map |-> <<>>, total |-> 0], counts, 1, flt)

----------------------------------------------------------------------------
(* mapToRankedArray *)

\* Sign of the lexicographic comparison of two sequences of integers.
RECURSIVE KeyCompare(_, _)
KeyCompare(ka, kb) ==
    IF Len(ka) = 0 /\ Len(kb) = 0 THEN 0
    ELSE IF Len(ka) = 0 THEN -1
    ELSE IF Len(kb) = 0 THEN 1
    ELSE IF Head(ka) < Head(kb) THEN -1
    ELSE IF Head(ka) > Head(kb) THEN 1
    ELSE KeyCompare(Tail(ka), Tail(kb))

\* Collation weights of a code unit in the runtime's default locale
\* (CLDR root order: whitespace < punctuation < digits < letters; a letter's
\* accent is a secondary and its case a tertiary difference; canonically
\* equivalent characters carry the same weights on every level).
CollationPrimary(c) ==
    CASE c \in WhitespaceUnits -> 1
      [] c = 95 -> 2
      [] c = 44 -> 3
      [] c \in {59, 894} -> 4
      [] c = 46 -> 5
      [] c = 34 -> 6
      [] c \in 48..57 -> 10 + (c - 48)
      [] c \in 97..122 -> 100 + (c - 97)
      [] c \in 65..90 -> 100 + (c - 65)
      [] c \in {201, 233} -> 104
      [] OTHER -> 1000 + c

CollationSecondary(c) == IF c \in {201, 233} THEN 1 ELSE 0

CollationTertiary(c) ==
    LET upper == c \in 65..90 \/ c = 201
        lower == c \in 97..122 \/ c = 233
    IN IF caseFirst = "upper"
       THEN (IF lower THEN 1 ELSE 0)
       ELSE (IF upper THEN 1 ELSE 0)

\* a.localeCompare(b): primary weights decide first, then accents, then case
localeCompare(a, b) ==
    LET p == KeyCompare([i \in 1..Len(a) |-> CollationPrimary(a[i])],
                        [i \in 1..Len(b) |-> CollationPrimary(b[i])])
        s == KeyCompare([i \in 1..Len(a) |-> CollationSecondary(a[i])],
                        [i \in 1..Len(b) |-> CollationSecondary(b[i])])
        t == KeyCompare([i \in 1..Len(a) |-> CollationTertiary(a[i])],
                        [i \in 1..Len(b) |-> CollationTertiary(b[i])])
    IN IF p # 0 THEN p ELSE IF s # 0 THEN s ELSE t

\* faulty variant: sorts by ascending frequency
compareEntries_Ascending(a, b) ==
    IF b[2] # a[2] THEN a[2] - b[2] ELSE localeCompare(a[1], b[1])

\* faulty variant: reverses the tie-break
compareEntries_TieReversed(a, b) ==
    IF b[2] # a[2] THEN b[2] - a[2] ELSE localeCompare(b[1], a[1])

\* the comparator handed to entries.sort
compareEntries(a, b) ==
    IF b[2] # a[2] THEN b[2] - a[2] ELSE localeCompare(a[1], b[1])

\* Array.prototype.sort is stable: an element goes before the first element
\* that the comparator puts after it.
InsertEntry(sorted, e) ==
    LET after == {j \in 1..Len(sorted) : compareEntries(sorted[j], e) > 0}
        pos == IF after = {} THEN Len(sorted) + 1
               ELSE CHOOSE j \in after : \A k \in after : j <= k
    IN SubSeq(sorted, 1, pos - 1) \o <<e>> \o SubSeq(sorted, pos, Len(sorted))

RECURSIVE SortLoop(_, _, _)
SortLoop(sorted, entries, i) ==
    IF i <= Len(entries)
    THEN SortLoop(InsertEntry(sorted, entries[i]), entries, i + 1)
    ELSE sorted

SortEntries(entries) == SortLoop(<<>>, entries, 1)

\* faulty variant: hands out the 0-based index
RankOfIndex_ZeroBased(index) == index

\* rank: index + 1
RankOfIndex(index) == index + 1

mapToRankedArray(countMap) ==
    LET entries == SortEntries(countMap.map)
    IN [k \in 1..Len(entries) |->
            [sequence |-> entries[k][1],
             frequency |-> entries[k][2],
             rank |-> RankOfIndex(k - 1)]]

----------------------------------------------------------------------------
(* calculateFilteredNGrams *)

\* everything after the scan: filter each raw table, extract the totals, rank
filterAndRankAll(raw, flt) ==
    LET filteredMonograms == filterAndReaggregate(raw.monograms, flt)
        filteredBigrams == filterAndReaggregate(raw.bigrams, flt)
        filteredTrigrams == filterAndReaggregate(raw.trigrams, flt)
        filteredSkipgrams == filterAndReaggregate(raw.skipgrams, flt)
        filteredWords == filterAndReaggregate(raw.words, flt)
    IN [monograms |-> mapToRankedArray(filteredMonograms),
        bigrams |-> mapToRankedArray(filteredBigrams),
        trigrams |-> mapToRankedArray(filteredTrigrams),
        skipgrams |-> mapToRankedArray(filteredSkipgrams),
        words |-> mapToRankedArray(filteredWords),
        totals |-> [monograms |-> filteredMonograms.total,
                    bigrams |-> filteredBigrams.total,
                    trigrams |-> filteredTrigrams.total,
                    skipgrams |-> filteredSkipgrams.total,
                    words |-> filteredWords.total]]

calculateFilteredNGrams(txt, flt) == filterAndRankAll(calculateNGrams(txt), flt)

----------------------------------------------------------------------------
(* The core as a state machine: one call of calculateFilteredNGrams on    *)
(* (text, filters), first the scan, then the filtering and ranking.         *)

NoRawCounts ==
    [monograms |-> <<>>, bigrams |-> <<>>, trigrams |-> <<>>,
     skipgrams |-> <<>>, words |-> <<>>]

NoResult ==
    [monograms |-> <<>>, bigrams |-> <<>>, trigrams |-> <<>>,
     skipgrams |-> <<>>, words |-> <<>>,
     totals |-> [monograms |-> 0, bigrams |-> 0, trigrams |-> 0,
                 skipgrams |-> 0, words |-> 0]]

\* filterWhitespace = true, filterPunctuation = false, caseSensitive = false
DefaultFilters ==
    [filterWhitespace |-> TRUE, filterPunctuation |-> FALSE, caseSensitive |-> FALSE]

\* query '', useRegex false, the default filters, limit 0 (no limit)
DefaultSearch ==
    [query |-> <<>>, useRegex |-> FALSE, filters |-> DefaultFilters, limit |-> 0]

\* The state index.ts is loaded with.
defaultState ==
    [corpus |-> None, search |-> DefaultSearch, analysis |-> None,
     selectedNGramType |-> "bigrams"]

\* A locator without parameters.  Each parameter is None when the key is
\* absent and Some(value) when it is present.
EmptyLocator ==
    [corpus |-> None, type |-> None, limit |-> None, search |-> None,
     regex |-> None, whitespace |-> None, punct |-> None, case |-> None]

\* The explorer is not mounted.
ExplorerIdle ==
    /\ currentState = defaultState
    /\ location = EmptyLocator
    /\ params = None
    /\ restored = None
    /\ analysisSection = FALSE
    /\ exportButton = FALSE
    /\ pendingLoads = <<>>
    /\ event = "none"

\* No consumer is attached.
ConsumersIdle ==
    /\ selectedType = "bigrams"
    /\ searchSettings = DefaultSearch
    /\ tableData = None
    /\ exportData = None
    /\ csvContent = None

Init ==
    /\ ConsumersIdle
    /\ ExplorerIdle
    /\ text \in Texts
    /\ filters \in FilterSettingsSet
    /\ caseFirst \in {"lower", "upper"}
    /\ rawCounts = NoRawCounts
    /\ result = NoResult
    /\ pc = "start"
    /\ calls = 0

\* faulty variant: the five maps live outside the function and are reused
Scan_ReusesMaps ==
    /\ pc = "start"
    /\ rawCounts' =
          LET st == FinalWord(ScanLoop(
                        [monograms |-> rawCounts.monograms, bigrams |-> rawCounts.bigrams,
                         trigrams |-> rawCounts.trigrams, skipgrams |-> rawCounts.skipgrams,
                         words |-> rawCounts.words, currentWord |-> <<>>], text, 0))
          IN [monograms |-> st.monograms, bigrams |-> st.bigrams,
              trigrams |-> st.trigrams, skipgrams |-> st.skipgrams, words |-> st.words]
    /\ pc' = "scanned"
    /\ UNCHANGED <<text, filters, caseFirst, result, calls>>
    /\ UNCHANGED <<consumerVars, explorerVars>>

\* const rawCounts = calculateNGrams(text)
Scan ==
    /\ pc = "start"
    /\ rawCounts' = calculateNGrams(text)
    /\ pc' = "scanned"
    /\ UNCHANGED <<text, filters, caseFirst, result, calls>>
    /\ UNCHANGED <<consumerVars, explorerVars>>

\* the five filterAndReaggregate calls, the totals and the five rankings
FilterAndRank ==
    /\ pc = "scanned"
    /\ result' = filterAndRankAll(rawCounts, filters)
    /\ pc' = "done"
    /\ UNCHANGED <<text, filters, caseFirst, rawCounts, calls>>
    /\ UNCHANGED <<consumerVars, explorerVars>>

Next == Scan \/ FilterAndRank

rawDone == pc \in {"scanned", "done"}

resultDone == pc = "done"

Spec == Init /\ [][Next]_vars

----------------------------------------------------------------------------
(* A session of calls: after a call has returned the caller calls again    *)
(* with arguments of its choice.  The maps of the call that returned are    *)
(* garbage that is still in memory; the returned value is with the caller.  *)

InitCalls ==
    /\ ConsumersIdle
    /\ ExplorerIdle
    /\ text \in CallTexts
    /\ filters \in FilterSettingsSet
    /\ caseFirst \in {"lower", "upper"}
    /\ rawCounts = NoRawCounts
    /\ result = NoResult
    /\ pc = "start"
    /\ calls = 0

NewCall ==
    /\ pc = "done"
    /\ calls < MaxCalls
    /\ text' \in CallTexts
    /\ filters' \in FilterSettingsSet
    /\ result' = NoResult
    /\ pc' = "start"
    /\ calls' = calls + 1
    /\ UNCHANGED <<caseFirst, rawCounts>>
    /\ UNCHANGED <<consumerVars, explorerVars>>

NextCalls == Scan \/ FilterAndRank \/ NewCall

SpecCalls == InitCalls /\ [][NextCalls]_vars

----------------------------------------------------------------------------
(* The consumers of an analysis: the table display and the CSV export.     *)
(* Both take the ranked list of the selected type, keep the entries that   *)
(* match the search query, renumber them, and cut the list at the limit.   *)

\* Corpora shown and exported:
\*   a,b a,b ab "q"   (words a,b x2, ab x1, "q" x1)
\*   a<newline>b      ab      (empty)
ConsumerTexts ==
    {<<97, 44, 98, 32, 97, 44, 98, 32, 97, 98, 32, 34, 113, 34>>,
     <<97, 10, 98>>,
     <<97, 98>>,
     <<>>}

\* Search queries typed by the user: none, ",", "a", "b"
Queries == {<<>>, <<44>>, <<97>>, <<98>>}

SearchSettingsSet ==
    [query : Queries, useRegex : BOOLEAN, filters : {DefaultFilters}, limit : 0..MaxLimit]

\* The query occurs in the sequence.  For the queries above, which hold no
\* regular-expression operator, the textual and the regex reading agree.
matchesSearch(sequence, settings) ==
    \E i \in 0..(Len(sequence) - Len(settings.query)) :
        SubSeq(sequence, i + 1, i + Len(settings.query)) = settings.query

\* faulty variant: the entries keep the ranks the core gave them
RecalculateRanks_Keep(ngramData) == ngramData

\* ngramData.map((ngram, index) => ({...ngram, rank: index + 1}))
RecalculateRanks(ngramData) ==
    [index \in 1..Len(ngramData) |-> [ngramData[index] EXCEPT !.rank = index]]

\* ngramData.filter(ngram => matchesSearch(ngram.sequence, searchSettings))
FilterMatching(ngramData, settings) ==
    LET Matches(ngram) == matchesSearch(ngram.sequence, settings)
    IN SelectSeq(ngramData, Matches)

\* ngramData.slice(0, limit)
SliceToLimit(ngramData, limit) ==
    SubSeq(ngramData, 1, IF limit < Len(ngramData) THEN limit ELSE Len(ngramData))

\* createAnalysisDisplay, from the choice of the list to createNGramTable
DisplayedRows(results, type, settings) ==
    LET searched == IF settings.query # <<>>
                    THEN RecalculateRanks(FilterMatching(results[type], settings))
                    ELSE results[type]
    IN IF settings.limit > 0 THEN SliceToLimit(searched, settings.limit) ELSE searched

\* handleExportCSV, from the choice of the list to the call of exportToCSV
ExportedRows(results, type, settings) ==
    LET searched == IF settings.query # <<>>
                    THEN RecalculateRanks(FilterMatching(results[type], settings))
                    ELSE results[type]
    IN IF settings.limit > 0 THEN SliceToLimit(searched, settings.limit) ELSE searched

\* Number.prototype.toString of a natural number
RECURSIVE Decimal(_)
Decimal(n) ==
    IF n < 10 THEN <<48 + n>> ELSE Decimal(n \div 10) \o <<48 + (n % 10)>>

\* ((frequency / total) * 100).toFixed(3): the nearest multiple of 0.001
toFixed3(frequency, total) ==
    LET thousandths == (200000 * frequency + total) \div (2 * total)
        fraction == thousandths % 1000
    IN Decimal(thousandths \div 1000)
           \o <<46, 48 + (fraction \div 100), 48 + ((fraction \div 10) % 10),
                48 + (fraction % 10)>>

\* Monogram, Bigram, Trigram, Skipgram, Word
getSequenceColumnLabel(type) ==
    CASE type = "monograms" -> <<77, 111, 110, 111, 103, 114, 97, 109>>
      [] type = "bigrams" -> <<66, 105, 103, 114, 97, 109>>
      [] type = "trigrams" -> <<84, 114, 105, 103, 114, 97, 109>>
      [] type = "skipgrams" -> <<83, 107, 105, 112, 103, 114, 97, 109>>
      [] type = "words" -> <<87, 111, 114, 100>>

\* value.replace(/"/g, '""')
RECURSIVE DoubleQuotes(_)
DoubleQuotes(value) ==
    IF value = <<>> THEN <<>>
    ELSE (IF Head(value) = 34 THEN <<34, 34>> ELSE <<Head(value)>>)
             \o DoubleQuotes(Tail(value))

\* a value with a comma (44), a quote (34) or a newline (10) is quoted
escapeCSVField(value) ==
    IF \E i \in 1..Len(value) : value[i] \in {44, 34, 10}
    THEN <<34>> \o DoubleQuotes(value) \o <<34>>
    ELSE value

\* `${ngram.rank},${sequence},${counts},${frequency}%`
CSVRow(ngram, total) ==
    LET sequence == escapeCSVField(<<34>> \o ngram.sequence \o <<34>>)
        counts == Decimal(ngram.frequency)
        frequency == IF total > 0 THEN toFixed3(ngram.frequency, total)
                     ELSE <<48, 46, 48, 48, 48>>
    IN Decimal(ngram.rank) \o <<44>> \o sequence \o <<44>> \o counts
           \o <<44>> \o frequency \o <<37>>

\* lines.join('\n')
RECURSIVE JoinLines(_)
JoinLines(lines) ==
    IF Len(lines) = 0 THEN <<>>
    ELSE IF Len(lines) = 1 THEN lines[1]
    ELSE lines[1] \o <<10>> \o JoinLines(Tail(lines))

\* the header Rank,<label>,Counts,Frequency
CSVHeader(type) ==
    <<82, 97, 110, 107, 44>> \o getSequenceColumnLabel(type)
        \o <<44, 67, 111, 117, 110, 116, 115, 44,
             70, 114, 101, 113, 117, 101, 110, 99, 121>>

exportToCSV(ngramData, type, total) ==
    JoinLines(<<CSVHeader(type)>>
                  \o [k \in 1..Len(ngramData) |-> CSVRow(ngramData[k], total)])

InitConsumers ==
    /\ ExplorerIdle
    /\ text \in ConsumerTexts
    /\ filters \in FilterSettingsSet
    /\ caseFirst \in {"lower", "upper"}
    /\ rawCounts = NoRawCounts
    /\ result = NoResult
    /\ pc = "start"
    /\ calls = 0
    /\ selectedType \in NGramTypes
    /\ searchSettings \in SearchSettingsSet
    /\ tableData = None
    /\ exportData = None
    /\ csvContent = None

\* createAnalysisDisplay(container, results, selectedType, ..., searchSettings)
createAnalysisDisplay ==
    /\ pc = "done"
    /\ tableData = None
    /\ tableData' = Some(DisplayedRows(result, selectedType, searchSettings))
    /\ UNCHANGED <<coreVars, selectedType, searchSettings, exportData, csvContent>>
    /\ UNCHANGED explorerVars

\* handleExportCSV()
handleExportCSV ==
    /\ pc = "done"
    /\ csvContent = None
    /\ LET ngramData == ExportedRows(result, selectedType, searchSettings)
           total == result.totals[selectedType]
       IN /\ exportData' = Some(ngramData)
          /\ csvContent' = Some(exportToCSV(ngramData, selectedType, total))
    /\ UNCHANGED <<coreVars, selectedType, searchSettings, tableData>>
    /\ UNCHANGED explorerVars

NextConsumers == Scan \/ FilterAndRank \/ createAnalysisDisplay \/ handleExportCSV

SpecConsumers == InitConsumers /\ [][NextConsumers]_vars

----------------------------------------------------------------------------
(* The locator state: serializeState and deserializeState.  The values of  *)
(* the corpus, type, regex, whitespace, punct and case parameters are      *)
(* written as strings; the values of limit and search are code units.      *)

\* faulty variant: the type parameter is written for the default type too
serializeState_AlwaysType(state) ==
    [corpus |-> IF state.corpus # None
                THEN (IF state.corpus[1].isCustom THEN Some("custom")
                      ELSE Some(state.corpus[1].name))
                ELSE None,
     type |-> Some(state.selectedNGramType),
     limit |-> IF state.search.limit > 0 THEN Some(Decimal(state.search.limit)) ELSE None,
     search |-> IF state.search.query # <<>> THEN Some(state.search.query) ELSE None,
     regex |-> IF state.search.useRegex THEN Some("true") ELSE None,
     whitespace |-> IF ~state.search.filters.filterWhitespace THEN Some("false") ELSE None,
     punct |-> IF state.search.filters.filterPunctuation THEN Some("true") ELSE None,
     case |-> IF state.search.filters.caseSensitive THEN Some("true") ELSE None]

serializeState(state) ==
    [corpus |-> IF state.corpus # None
                THEN (IF state.corpus[1].isCustom THEN Some("custom")
                      ELSE Some(state.corpus[1].name))
                ELSE None,
     type |-> IF state.selectedNGramType # "bigrams"
              THEN Some(state.selectedNGramType) ELSE None,
     limit |-> IF state.search.limit > 0 THEN Some(Decimal(state.search.limit)) ELSE None,
     search |-> IF state.search.query # <<>> THEN Some(state.search.query) ELSE None,
     regex |-> IF state.search.useRegex THEN Some("true") ELSE None,
     whitespace |-> IF ~state.search.filters.filterWhitespace THEN Some("false") ELSE None,
     punct |-> IF state.search.filters.filterPunctuation THEN Some("true") ELSE None,
     case |-> IF state.search.filters.caseSensitive THEN Some("true") ELSE None]

\* value of the first k code units of s, all of them digits
RECURSIVE DigitsValue(_, _)
DigitsValue(s, k) ==
    IF k = 0 THEN 0 ELSE 10 * DigitsValue(s, k - 1) + (s[k] - 48)

\* parseInt(s, 10) of a string without leading whitespace: an optional minus
\* sign and the digits that follow; None is NaN
parseInt(s) ==
    LET negative == Len(s) > 0 /\ s[1] = 45
        body == IF negative THEN Tail(s) ELSE s
        n == Cardinality({k \in 1..Len(body) : \A j \in 1..k : body[j] \in 48..57})
    IN IF n = 0 THEN None
       ELSE Some(IF negative THEN 0 - DigitsValue(body, n) ELSE DigitsValue(body, n))

\* const validTypes: NGramType[] = ['monograms', 'bigrams', 'trigrams', 'words']
validTypes == {"monograms", "bigrams", "trigrams", "words"}

\* searchSettings.limit: the limit parameter when it parses to a number > 0
LimitOf(limitParam) ==
    IF /\ limitParam # None
       /\ limitParam[1] # <<>>
       /\ parseInt(limitParam[1]) # None
       /\ parseInt(limitParam[1])[1] > 0
    THEN parseInt(limitParam[1]) ELSE None

\* The Partial<CorpusExplorerState> of a locator: a member is None when the
\* partial state does not have it.
deserializeState(p) ==
    LET corpus == IF p.corpus # None /\ p.corpus[1] # "" /\ p.corpus[1] # "custom"
                  THEN Some([name |-> p.corpus[1], text |-> <<>>, isCustom |-> FALSE])
                  ELSE None
        type == IF p.type # None /\ p.type[1] # "" /\ p.type[1] \in validTypes
                THEN p.type ELSE None
        limit == LimitOf(p.limit)
        query == p.search
        useRegex == IF p.regex = Some("true") THEN Some(TRUE) ELSE None
        filterWhitespace == IF p.whitespace = Some("false") THEN Some(FALSE) ELSE None
        filterPunctuation == IF p.punct = Some("true") THEN Some(TRUE) ELSE None
        caseSensitive == IF p.case = Some("true") THEN Some(TRUE) ELSE None
        anyKey == \/ limit # None \/ query # None \/ useRegex # None
                  \/ filterWhitespace # None \/ filterPunctuation # None
                  \/ caseSensitive # None
    IN [corpus |-> corpus,
        selectedNGramType |-> type,
        search |->
            IF anyKey
            THEN Some([query |-> IF query # None THEN query[1] ELSE <<>>,
                       useRegex |-> useRegex # None,
                       limit |-> IF limit # None THEN limit[1] ELSE 0,
                       filters |->
                           [filterWhitespace |-> filterWhitespace = None,
                            filterPunctuation |-> filterPunctuation # None,
                            caseSensitive |-> caseSensitive # None]])
            ELSE None]

\* "Apply URL state to current state": the type when the partial state has
\* one, and the search settings when it has them.  The partial state's
\* search settings define every member, so the spread takes all of them.
ApplyURLState(state, urlState) ==
    [state EXCEPT
        !.selectedNGramType =
            IF urlState.selectedNGramType # None THEN urlState.selectedNGramType[1] ELSE @,
        !.search = IF urlState.search # None THEN urlState.search[1] ELSE @]

\* Corpora of a state: none, the preset e200.txt, a custom file.
PresetNames == {"e200.txt"}

\* response.text() of ./public/corpus/e200.txt: "a b"
PresetText(name) == <<97, 32, 98>>

\* an uploaded file notes.txt with the text "A a"
CustomCorpus == [name |-> "notes.txt", text |-> <<65, 32, 97>>, isCustom |-> TRUE]

PresetCorpus(name) == [name |-> name, text |-> PresetText(name), isCustom |-> FALSE]

\* queries of the explorer: none and "a"
ExplorerQueries == {<<>>, <<97>>}

\* States handed to serializeState: the limits up to MaxLimit and 12.
LocatorStates ==
    [corpus : {None, Some(PresetCorpus("e200.txt")), Some(CustomCorpus)},
     search : [query : ExplorerQueries, useRegex : BOOLEAN,
               filters : FilterSettingsSet, limit : (0..MaxLimit) \cup {12}],
     analysis : {None},
     selectedNGramType : NGramTypes]

CoreIdle ==
    /\ text = <<>>
    /\ filters = DefaultFilters
    /\ rawCounts = NoRawCounts
    /\ result = NoResult
    /\ pc = "idle"
    /\ calls = 0

InitLocator ==
    /\ CoreIdle
    /\ caseFirst = "lower"
    /\ ConsumersIdle
    /\ currentState \in LocatorStates
    /\ location = EmptyLocator
    /\ params = None
    /\ restored = None
    /\ analysisSection = FALSE
    /\ exportButton = FALSE
    /\ pendingLoads = <<>>
    /\ event = "none"

\* serializeToURL(state)
serializeToURL ==
    /\ params = None
    /\ params' = Some(serializeState(currentState))
    /\ event' = "serializeToURL"
    /\ UNCHANGED <<coreVars, consumerVars, currentState, location, restored,
                   analysisSection, exportButton, pendingLoads>>

\* deserializeFromURL(params), merged over the defaults
deserializeFromURL ==
    /\ params # None
    /\ restored = None
    /\ restored' = Some(ApplyURLState(defaultState, deserializeState(params[1])))
    /\ event' = "deserializeFromURL"
    /\ UNCHANGED <<coreVars, consumerVars, currentState, location, params,
                   analysisSection, exportButton, pendingLoads>>

NextLocator == serializeToURL \/ deserializeFromURL

SpecLocator == InitLocator /\ [][NextLocator]_vars

----------------------------------------------------------------------------
(* The explorer: initializeCorpusExplorer and the event handlers of        *)
(* index.ts, each run to completion.  controlsSection and analysisSection  *)
(* are both created by initializeCorpusExplorer, so one flag stands for    *)
(* the two.  The type selector, the filter checkboxes and the search panel *)
(* exist while the analysis section shows a table.                         *)

\* Locators that leave out any subset of whitespace, punct, case and limit.
SettingsLocators ==
    {[EmptyLocator EXCEPT
         !.whitespace = IF "whitespace" \in S THEN Some("false") ELSE None,
         !.punct = IF "punct" \in S THEN Some("true") ELSE None,
         !.case = IF "case" \in S THEN Some("true") ELSE None,
         !.limit = IF "limit" \in S THEN Some(<<49>>) ELSE None] :
     S \in SUBSET {"whitespace", "punct", "case", "limit"}}

\* corpus=e200.txt, corpus=custom, corpus=missing.txt, type=words,
\* type=skipgrams, search=, limit=abc, limit=0, search=a&regex=true
OtherLocators ==
    {[EmptyLocator EXCEPT !.corpus = Some("e200.txt")],
     [EmptyLocator EXCEPT !.corpus = Some("custom")],
     [EmptyLocator EXCEPT !.corpus = Some("missing.txt")],
     [EmptyLocator EXCEPT !.type = Some("words")],
     [EmptyLocator EXCEPT !.type = Some("skipgrams")],
     [EmptyLocator EXCEPT !.search = Some(<<>>)],
     [EmptyLocator EXCEPT !.limit = Some(<<97, 98, 99>>)],
     [EmptyLocator EXCEPT !.limit = Some(<<48>>)],
     [EmptyLocator EXCEPT !.search = Some(<<97>>), !.regex = Some("true")]}

\* Locators the page is opened with, or has when the explorer is mounted.
NavigationLocators == SettingsLocators \cup OtherLocators

\* the options of the type selector
SelectorOptions == {"monograms", "bigrams", "trigrams", "words"}

\* the SearchSettings the search panel reports: the limit is off or
\* MaxLimit, and the filters it carries are the defaults or their opposite
PanelSettings ==
    [query : ExplorerQueries, useRegex : BOOLEAN,
     filters : {DefaultFilters,
                [filterWhitespace |-> FALSE, filterPunctuation |-> TRUE,
                 caseSensitive |-> TRUE]},
     limit : {0, MaxLimit}]

\* the AnalysisResults performAnalysis builds
AnalysisOf(ngramResults) ==
    [monograms |-> ngramResults.monograms,
     bigrams |-> ngramResults.bigrams,
     trigrams |-> ngramResults.trigrams,
     words |-> ngramResults.words,
     totals |-> ngramResults.totals]

\* What the handlers work on: the state, the section flag, the table shown
\* and the export button.
UI == [state |-> currentState, section |-> analysisSection,
       table |-> tableData, button |-> exportButton]

\* updateAnalysisDisplay(analysisSection, results, selectedNGramType, ...)
updateAnalysisDisplay(ui, results) ==
    [ui EXCEPT !.table =
        Some(DisplayedRows(results, ui.state.selectedNGramType, ui.state.search))]

\* updateControlsPanel(): the button is shown when an analysis is stored
updateControlsPanel(ui) ==
    IF ~ui.section THEN ui ELSE [ui EXCEPT !.button = (ui.state.analysis # None)]

\* faulty variant: an analysis that is already stored is kept
performAnalysis_KeepsStored(ui) ==
    IF ui.state.corpus = None \/ ~ui.section \/ ui.state.analysis # None THEN ui
    ELSE LET results == AnalysisOf(calculateFilteredNGrams(
                                       ui.state.corpus[1].text, ui.state.search.filters))
             stored == [ui EXCEPT !.state.analysis = Some(results)]
         IN updateControlsPanel(updateAnalysisDisplay(stored, results))

performAnalysis(ui) ==
    IF ui.state.corpus = None \/ ~ui.section THEN ui
    ELSE LET results == AnalysisOf(calculateFilteredNGrams(
                                       ui.state.corpus[1].text, ui.state.search.filters))
             stored == [ui EXCEPT !.state.analysis = Some(results)]
         IN updateControlsPanel(updateAnalysisDisplay(stored, results))

\* the display is refreshed when an analysis is stored
RefreshDisplay(ui) ==
    IF ui.state.analysis # None /\ ui.section
    THEN updateAnalysisDisplay(ui, ui.state.analysis[1])
    ELSE ui

\* the handler leaves ui and the locator behind
Leave(ui, loc, name) ==
    /\ currentState' = ui.state
    /\ analysisSection' = ui.section
    /\ tableData' = ui.table
    /\ exportButton' = ui.button
    /\ location' = loc
    /\ event' = name
    /\ UNCHANGED <<coreVars, selectedType, searchSettings, exportData, csvContent,
                   params, restored>>

InitExplorer ==
    /\ CoreIdle
    /\ caseFirst = "lower"
    /\ ConsumersIdle
    /\ currentState = defaultState
    /\ location \in NavigationLocators
    /\ params = None
    /\ restored = None
    /\ analysisSection = FALSE
    /\ exportButton = FALSE
    /\ pendingLoads = <<>>
    /\ event = "none"

\* initializeCorpusExplorer(container) on a page whose locator is loc
InitializeAt(loc) ==
    LET urlState == deserializeState(loc)
        applied == [UI EXCEPT !.state = ApplyURLState(currentState, urlState),
                              !.section = TRUE]
        \* createAnalysisDisplay(analysisSection, null, ...): no table
        shown == [updateControlsPanel(applied) EXCEPT !.table = None]
    IN /\ (urlState.corpus # None) => Len(pendingLoads) < MaxPending
       /\ pendingLoads' = IF urlState.corpus # None
                          THEN Append(pendingLoads, urlState.corpus[1].name)
                          ELSE pendingLoads
       /\ Leave(shown, loc, "initializeCorpusExplorer")

\* the host page mounts the explorer
initializeCorpusExplorer == \E loc \in {location} : InitializeAt(loc)

\* the host page mounts the explorer after the locator was changed from
\* outside (history navigation, another feature of the page)
initializeAfterNavigation ==
    \E loc \in NavigationLocators \ {location} : InitializeAt(loc)

RemoveAt(seq, i) == SubSeq(seq, 1, i - 1) \o SubSeq(seq, i + 1, Len(seq))

\* loadPreset(name).then(...): the load started from the locator completes
presetLoaded ==
    \E i \in 1..Len(pendingLoads) :
        /\ pendingLoads[i] \in PresetNames
        /\ pendingLoads' = RemoveAt(pendingLoads, i)
        /\ LET loaded == [UI EXCEPT !.state.corpus = Some(PresetCorpus(pendingLoads[i]))]
           IN Leave(updateControlsPanel(performAnalysis(loaded)), location, "presetLoaded")

\* loadPreset(name).catch(...): the load fails
presetLoadFailed ==
    \E i \in 1..Len(pendingLoads) :
        /\ pendingLoads' = RemoveAt(pendingLoads, i)
        /\ Leave(UI, location, "presetLoadFailed")

\* the callback the controls panel calls with a loaded corpus
onCorpusLoad ==
    \E corpus \in {PresetCorpus(name) : name \in PresetNames} \cup {CustomCorpus} :
        /\ analysisSection
        /\ LET loaded == [UI EXCEPT !.state.corpus = Some(corpus)]
           IN Leave(updateControlsPanel(performAnalysis(loaded)),
                    serializeState(loaded.state), "onCorpusLoad")
        /\ UNCHANGED pendingLoads

handleNGramTypeChange ==
    \E type \in SelectorOptions :
        /\ tableData # None
        /\ LET changed == [UI EXCEPT !.state.selectedNGramType = type]
           IN Leave(RefreshDisplay(changed), serializeState(changed.state),
                    "handleNGramTypeChange")
        /\ UNCHANGED pendingLoads

handleFilterChange ==
    \E newFilters \in FilterSettingsSet :
        /\ tableData # None
        /\ LET changed == [UI EXCEPT !.state.search.filters = newFilters]
           IN Leave(performAnalysis(changed), serializeState(changed.state),
                    "handleFilterChange")
        /\ UNCHANGED pendingLoads

\* faulty variant: the filters of the incoming settings are stored
handleSearchChange_TakesFilters ==
    \E settings \in PanelSettings :
        /\ tableData # None
        /\ LET changed == [UI EXCEPT !.state.search =
                               [query |-> settings.query,
                                useRegex |-> settings.useRegex,
                                limit |-> settings.limit,
                                filters |-> settings.filters]]
           IN Leave(RefreshDisplay(changed), serializeState(changed.state),
                    "handleSearchChange")
        /\ UNCHANGED pendingLoads

handleSearchChange ==
    \E settings \in PanelSettings :
        /\ tableData # None
        /\ LET changed == [UI EXCEPT !.state.search =
                               [query |-> settings.query,
                                useRegex |-> settings.useRegex,
                                limit |-> settings.limit,
                                filters |-> currentState.search.filters]]
           IN Leave(RefreshDisplay(changed), serializeState(changed.state),
                    "handleSearchChange")
        /\ UNCHANGED pendingLoads

NextExplorer ==
    \/ initializeCorpusExplorer
    \/ presetLoaded
    \/ presetLoadFailed
    \/ onCorpusLoad
    \/ handleNGramTypeChange
    \/ handleFilterChange
    \/ handleSearchChange

SpecExplorer == InitExplorer /\ [][NextExplorer]_vars

\* The explorer on a page whose locator also changes from outside.
NextRemount == NextExplorer \/ initializeAfterNavigation

SpecRemount == InitExplorer /\ [][NextRemount]_vars

----------------------------------------------------------------------------
(* Vocabulary of the properties *)

\* Sum of the counts of the entries of table m at the positions in S.
RECURSIVE SumAt(_, _)
SumAt(m, S) ==
    IF S = {} THEN 0
    ELSE LET i == CHOOSE j \in S : TRUE IN m[i][2] + SumAt(m, S \ {i})

SumCounts(m) == SumAt(m, 1..Len(m))

RECURSIVE SumFrequency(_)
SumFrequency(list) ==
    IF Len(list) = 0 THEN 0 ELSE Head(list).frequency + SumFrequency(Tail(list))

ListSequences(list) == {list[k].sequence : k \in 1..Len(list)}

HasWhitespaceChar(s) == \E i \in 1..Len(s) : s[i] \in WhitespaceUnits

\* a character outside [A-Za-z0-9_] and outside the whitespace class
HasNonWordChar(s) ==
    \E i \in 1..Len(s) :
        /\ s[i] \notin WhitespaceUnits
        /\ s[i] \notin (48..57) \cup (65..90) \cup {95} \cup (97..122)

\* letters and digits of Basic Latin and Latin-1
AlphanumericUnits ==
    (48..57) \cup (65..90) \cup (97..122) \cup {170, 181, 186}
        \cup ((192..255) \ {215, 247})

\* a character that is neither alphanumeric nor whitespace
HasNonAlphanumericChar(s) ==
    \E i \in 1..Len(s) :
        s[i] \notin AlphanumericUnits /\ s[i] \notin WhitespaceUnits

UppercaseUnits == (65..90) \cup ((192..222) \ {215})

\* Positions <<s, e>> of the maximal runs of non-whitespace characters of txt:
\* the non-empty tokens of a split on whitespace.
TokenRanges(txt) ==
    {r \in (1..Len(txt)) \X (1..Len(txt)) :
        /\ r[1] <= r[2]
        /\ \A i \in r[1]..r[2] : txt[i] \notin WhitespaceUnits
        /\ (r[1] = 1 \/ txt[r[1] - 1] \in WhitespaceUnits)
        /\ (r[2] = Len(txt) \/ txt[r[2] + 1] \in WhitespaceUnits)}

Token(txt, r) == SubSeq(txt, r[1], r[2])

NoDuplicateKeys(m) == \A i, j \in 1..Len(m) : m[i][1] = m[j][1] => i = j

\* the raw pair with key k passes the whitespace and punctuation rules of flt
Survives(k, flt) ==
    /\ ~(flt.filterWhitespace /\ HasWhitespaceChar(k))
    /\ ~(flt.filterPunctuation /\ HasNonWordChar(k))

SurvivorsOf(m, flt) == {i \in 1..Len(m) : Survives(m[i][1], flt)}

----------------------------------------------------------------------------
(* Properties of calculateNGrams *)

\* C1: the raw monogram counts sum to the length of the text.
C1_MonogramSum ==
    rawDone => SumCounts(rawCounts.monograms) = Len(text)

C1_Witness ==
    /\ rawDone
    /\ Len(text) >= 2
    /\ \E i \in 1..Len(rawCounts.monograms) : rawCounts.monograms[i][2] >= 2

\* C2: the raw bigram counts sum to n-1 for n >= 2 and the table is empty for
\* n < 2; the raw trigram and skipgram counts each sum to n-2 for n >= 3 and
\* both tables are empty for n < 3; the empty text gives five empty tables and
\* a 1-character text populates only the monogram table and, when the
\* character is not whitespace, the word table.
C2_WindowSums ==
    rawDone =>
        LET n == Len(text) IN
        /\ n >= 2 => SumCounts(rawCounts.bigrams) = n - 1
        /\ n < 2 => rawCounts.bigrams = <<>>
        /\ n >= 3 => /\ SumCounts(rawCounts.trigrams) = n - 2
                     /\ SumCounts(rawCounts.skipgrams) = n - 2
        /\ n < 3 => rawCounts.trigrams = <<>> /\ rawCounts.skipgrams = <<>>
        /\ n = 0 => rawCounts = NoRawCounts
        /\ n = 1 => /\ rawCounts.monograms = <<(<<text, 1>>)>>
                    /\ (rawCounts.words # <<>>) <=> (text[1] \notin WhitespaceUnits)

C2_Witness ==
    /\ rawDone
    /\ Len(text) >= 3
    /\ rawCounts.trigrams # <<>>
    /\ \E i \in 1..Len(rawCounts.bigrams) : rawCounts.bigrams[i][2] >= 2

\* C3: the raw word table is the multiset of the non-empty tokens of the text
\* split on whitespace: same keys, same count per key.
C3_WordsAreTokens ==
    rawDone =>
        /\ NoDuplicateKeys(rawCounts.words)
        /\ MapKeys(rawCounts.words) = {Token(text, r) : r \in TokenRanges(text)}
        /\ \A i \in 1..Len(rawCounts.words) :
              rawCounts.words[i][2] =
                  Cardinality({r \in TokenRanges(text) :
                                  Token(text, r) = rawCounts.words[i][1]})

C3_Witness ==
    /\ rawDone
    /\ Len(text) >= 3
    /\ text[1] \in WhitespaceUnits
    /\ text[2] \in WhitespaceUnits
    /\ text[Len(text)] \notin WhitespaceUnits
    /\ rawCounts.words # <<>>

----------------------------------------------------------------------------
(* Properties of calculateFilteredNGrams *)

\* C4: for each of the five table types the frequencies of the ranked list
\* sum to the total returned for that type.
C4_TotalConsistency ==
    resultDone =>
        \A t \in NGramTypes : SumFrequency(result[t]) = result.totals[t]

C4_Witness ==
    /\ resultDone
    /\ ~filters.caseSensitive
    /\ {<<65>>, <<97>>} \subseteq MapKeys(rawCounts.monograms)
    /\ result.totals.monograms >= 3
    /\ Len(result.monograms) >= 2

\* C5: the entry at list position k has rank k, and frequency is
\* non-increasing with list position.
C5_DenseRanks ==
    resultDone =>
        \A t \in NGramTypes :
            /\ \A k \in 1..Len(result[t]) : result[t][k].rank = k
            /\ \A k \in 1..(Len(result[t]) - 1) :
                  result[t][k].frequency >= result[t][k + 1].frequency

C5_Witness ==
    /\ resultDone
    /\ \E t \in NGramTypes :
          /\ Len(result[t]) >= 2
          /\ result[t][1].frequency = result[t][2].frequency
          /\ result[t][2].rank = 2
    /\ \E t \in NGramTypes :
          /\ Len(result[t]) >= 2
          /\ result[t][1].frequency > result[t][2].frequency

\* C6 as stated: adjacent entries of equal frequency are in ascending
\* lexicographic order of their sequence strings (code unit by code unit).
C6_TiesLexicographic ==
    resultDone =>
        \A t \in NGramTypes : \A k \in 1..(Len(result[t]) - 1) :
            result[t][k].frequency = result[t][k + 1].frequency
                => KeyCompare(result[t][k].sequence, result[t][k + 1].sequence) <= 0

\* C6 as amended: adjacent entries of equal frequency are in ascending order
\* of the runtime's collation (localeCompare), in which "a" precedes "B".
C6_TiesCollated ==
    resultDone =>
        \A t \in NGramTypes : \A k \in 1..(Len(result[t]) - 1) :
            result[t][k].frequency = result[t][k + 1].frequency
                => /\ localeCompare(result[t][k].sequence, result[t][k + 1].sequence) <= 0
                   /\ localeCompare(result[t][k + 1].sequence, result[t][k].sequence) >= 0

C6_Witness ==
    /\ resultDone
    /\ filters.caseSensitive
    /\ \E k \in 1..(Len(result.monograms) - 1) :
          /\ result.monograms[k].frequency = result.monograms[k + 1].frequency
          /\ result.monograms[k].sequence = <<97>>
          /\ result.monograms[k + 1].sequence = <<66>>

\* C7: with caseSensitive = false every key of a ranked list is lowercase,
\* appears once, and carries the summed raw counts of the surviving raw keys
\* that lowercase to it; every surviving raw key is represented.
C7_CaseCollapse ==
    (resultDone /\ ~filters.caseSensitive) =>
        \A t \in NGramTypes :
            LET raw == rawCounts[t]
                list == result[t]
            IN /\ \A k \in 1..Len(list) :
                     /\ \A i \in 1..Len(list[k].sequence) :
                           list[k].sequence[i] \notin UppercaseUnits
                     /\ list[k].frequency =
                           SumAt(raw, {i \in SurvivorsOf(raw, filters) :
                                          toLowerCase(raw[i][1]) = list[k].sequence})
                     /\ \A j \in 1..Len(list) :
                           list[j].sequence = list[k].sequence => j = k
               /\ \A i \in SurvivorsOf(raw, filters) :
                     toLowerCase(raw[i][1]) \in ListSequences(list)

C7_Witness ==
    /\ resultDone
    /\ ~filters.caseSensitive
    /\ {<<65>>, <<97>>} \subseteq MapKeys(rawCounts.words)
    /\ result.words = <<[sequence |-> <<97>>, frequency |-> 2, rank |-> 1]>>

\* C8: with filterWhitespace enabled no entry of a ranked list contains a
\* whitespace character and the counts of whitespace-containing raw keys are
\* not in the total; with filterWhitespace disabled a raw key is never
\* dropped for containing whitespace.
C8_WhitespaceFilter ==
    resultDone =>
        \A t \in NGramTypes :
            LET raw == rawCounts[t]
                kept == {i \in 1..Len(raw) :
                            ~(filters.filterPunctuation /\ HasNonWordChar(raw[i][1]))}
                clean == {i \in kept : ~HasWhitespaceChar(raw[i][1])}
            IN IF filters.filterWhitespace
               THEN /\ \A k \in 1..Len(result[t]) : ~HasWhitespaceChar(result[t][k].sequence)
                    /\ result.totals[t] = SumAt(raw, clean)
               ELSE /\ \A i \in kept :
                          normalizeSequence(raw[i][1], filters.caseSensitive)
                              \in ListSequences(result[t])
                    /\ result.totals[t] = SumAt(raw, kept)

C8_Witness ==
    /\ resultDone
    /\ filters.filterWhitespace
    /\ ~filters.filterPunctuation
    /\ Len(result.bigrams) = 1
    /\ Len(rawCounts.bigrams) = 2
    /\ result.totals.bigrams = 1

\* C9 as stated: with filterPunctuation enabled a raw pair is discarded
\* exactly when its key contains a character that is neither alphanumeric nor
\* whitespace, or the whitespace rule discarded it.
C9_PunctuationClass ==
    (resultDone /\ filters.filterPunctuation) =>
        \A t \in NGramTypes :
            LET raw == rawCounts[t] IN
            \A i \in 1..Len(raw) :
                (normalizeSequence(raw[i][1], filters.caseSensitive)
                    \notin ListSequences(result[t]))
                <=> \/ HasNonAlphanumericChar(raw[i][1])
                    \/ (filters.filterWhitespace /\ HasWhitespaceChar(raw[i][1]))

\* C10: the total of a filtered table is the sum of the raw counts of the raw
\* keys that pass the whitespace and punctuation rules, and so is the same for
\* caseSensitive = true and caseSensitive = false.
C10_TotalBeforeNormalization ==
    resultDone =>
        /\ \A t \in NGramTypes :
              LET raw == rawCounts[t]
              IN result.totals[t] = SumAt(raw, SurvivorsOf(raw, filters))
        /\ result.totals =
              calculateFilteredNGrams(
                  text, [filters EXCEPT !.caseSensitive = ~@]).totals

C10_Witness ==
    /\ resultDone
    /\ filters.filterWhitespace
    /\ ~filters.caseSensitive
    /\ Len(text) >= 3
    /\ Len(rawCounts.monograms) = 3
    /\ Len(result.monograms) = 1
    /\ result.totals.monograms = 2

----------------------------------------------------------------------------
(* Properties of the ranking order *)

\* The table m with its entries listed in the order p.
PermuteEntries(m, p) == [i \in 1..Len(m) |-> m[p[i]]]

\* C11 as stated: a raw table with the same key-to-count mapping in any other
\* entry order yields the same ranked list.
C11_OrderIndependent ==
    resultDone =>
        \A t \in NGramTypes : \A p \in Permutations(1..Len(rawCounts[t])) :
            mapToRankedArray(
                filterAndReaggregate(PermuteEntries(rawCounts[t], p), filters))
                = result[t]

\* C12: a call on (text, filters) that follows any sequence of earlier calls
\* returns what a first call on (text, filters) returns.
C12_PureFunction ==
    resultDone => result = calculateFilteredNGrams(text, filters)

C12_Witness ==
    /\ resultDone
    /\ calls = MaxCalls
    /\ Len(text) >= 1
    /\ result.totals.monograms >= 1
    /\ result.words # <<>>

\* C13: for the corpus "ab ab" under the default filters the monograms are
\* [(a,2,rank 1),(b,2,rank 2)] with total 4, the bigrams [(ab,2,rank 1)] with
\* total 2 and the words [(ab,2,rank 1)] with total 2.
C13_EndToEndExample ==
    (resultDone /\ text = <<97, 98, 32, 97, 98>> /\ filters = DefaultFilters) =>
        /\ result.monograms =
              <<[sequence |-> <<97>>, frequency |-> 2, rank |-> 1],
                [sequence |-> <<98>>, frequency |-> 2, rank |-> 2]>>
        /\ result.totals.monograms = 4
        /\ result.bigrams = <<[sequence |-> <<97, 98>>, frequency |-> 2, rank |-> 1]>>
        /\ result.totals.bigrams = 2
        /\ result.words = <<[sequence |-> <<97, 98>>, frequency |-> 2, rank |-> 1]>>
        /\ result.totals.words = 2

C13_Witness ==
    /\ resultDone
    /\ text = <<97, 98, 32, 97, 98>>
    /\ filters = DefaultFilters
    /\ {<<98, 32>>, <<32, 97>>} \subseteq MapKeys(rawCounts.bigrams)

----------------------------------------------------------------------------
(* Properties of the raw tables *)

\* C19: the raw skipgram table is the projection of the raw trigram table on
\* the first and third character: same keys, and the count of xy is the sum
\* of the counts of the trigrams x?y.
C19_SkipgramProjection ==
    rawDone =>
        LET tri == rawCounts.trigrams
            skip == rawCounts.skipgrams
        IN /\ NoDuplicateKeys(skip)
           /\ MapKeys(skip) = {<<tri[i][1][1], tri[i][1][3]>> : i \in 1..Len(tri)}
           /\ \A j \in 1..Len(skip) :
                 skip[j][2] =
                     SumAt(tri, {i \in 1..Len(tri) :
                                    /\ tri[i][1][1] = skip[j][1][1]
                                    /\ tri[i][1][3] = skip[j][1][2]})
           /\ (skip = <<>>) <=> (tri = <<>>)

C19_Witness ==
    /\ rawDone
    /\ Len(rawCounts.trigrams) = 2
    /\ rawCounts.skipgrams = <<(<<(<<97, 66>>), 2>>)>>

HighSurrogates == 55296..56319

LowSurrogates == 56320..57343

\* every surrogate of s is half of a pair that lies in s
WholeCharacters(s) ==
    \A i \in 1..Len(s) :
        /\ s[i] \in HighSurrogates => (i < Len(s) /\ s[i + 1] \in LowSurrogates)
        /\ s[i] \in LowSurrogates => (i > 1 /\ s[i - 1] \in HighSurrogates)

\* number of characters (code points) of s
CharacterCount(s) ==
    Cardinality({i \in 1..Len(s) :
                    ~(s[i] \in LowSurrogates /\ i > 1 /\ s[i - 1] \in HighSurrogates)})

\* C20 as stated: the keys of the raw monogram, bigram, trigram and skipgram
\* tables are 1, 2, 3 and 2 whole corpus characters, every word key is
\* non-empty and free of whitespace, and every stored count is at least 1.
C20_KeyShapes ==
    rawDone =>
        LET length == [t \in NGramTypes \ {"words"} |->
                          CASE t = "monograms" -> 1
                            [] t = "bigrams" -> 2
                            [] t = "trigrams" -> 3
                            [] t = "skipgrams" -> 2]
        IN /\ \A t \in NGramTypes \ {"words"} : \A i \in 1..Len(rawCounts[t]) :
                 /\ WholeCharacters(rawCounts[t][i][1])
                 /\ CharacterCount(rawCounts[t][i][1]) = length[t]
           /\ \A i \in 1..Len(rawCounts.words) :
                 /\ Len(rawCounts.words[i][1]) > 0
                 /\ ~HasWhitespaceChar(rawCounts.words[i][1])
           /\ \A t \in NGramTypes : \A i \in 1..Len(rawCounts[t]) :
                 rawCounts[t][i][2] >= 1

----------------------------------------------------------------------------
(* Properties of the consumers *)

\* the field a value is written as: quoted, with its quotes doubled, when it
\* holds a comma, a quote or a newline
QuotedWhenNeeded(value) ==
    IF \E i \in 1..Len(value) : value[i] \in {44, 34, 10}
    THEN <<34>> \o DoubleQuotes(value) \o <<34>>
    ELSE value

PositionOf(list, sequence) == CHOOSE k \in 1..Len(list) : list[k].sequence = sequence

\* shown is a selection of the entries of list, in the order of list, and
\* numbered 1..m
DenseSelection(shown, list) ==
    /\ \A k \in 1..Len(shown) :
          /\ shown[k].rank = k
          /\ \E j \in 1..Len(list) :
                /\ list[j].sequence = shown[k].sequence
                /\ list[j].frequency = shown[k].frequency
    /\ \A k \in 1..(Len(shown) - 1) :
          PositionOf(list, shown[k].sequence) < PositionOf(list, shown[k + 1].sequence)

\* C18: the rows the display shows and the rows the export writes are entries
\* of the core's list in the core's order with ranks 1..m, whether or not a
\* query and a limit are set.
C18_DenseRanksAfterSearch ==
    /\ (tableData # None) => DenseSelection(tableData[1], result[selectedType])
    /\ (exportData # None) => DenseSelection(exportData[1], result[selectedType])

C18_Witness ==
    /\ tableData # None
    /\ exportData # None
    /\ searchSettings.query # <<>>
    /\ searchSettings.limit > 0
    /\ Len(tableData[1]) = searchSettings.limit
    /\ Len(exportData[1]) = searchSettings.limit
    /\ Len(result[selectedType]) > searchSettings.limit + 1
    /\ tableData[1][1].sequence # result[selectedType][1].sequence

----------------------------------------------------------------------------
(* Properties of the locator state *)

\* C15: serializeState writes a key exactly when its setting is not the
\* default: type, limit, search, regex, whitespace, punct and case are present
\* iff the type is not bigrams, the limit is not 0, the query is not empty,
\* useRegex is set, filterWhitespace is off, filterPunctuation is on and
\* caseSensitive is on; the all-default state without corpus has no key.
C15_DefaultsOmitted ==
    (params # None) =>
        LET p == params[1]
            st == currentState
        IN /\ (p.type # None) <=> (st.selectedNGramType # "bigrams")
           /\ (p.limit # None) <=> (st.search.limit # 0)
           /\ (p.search # None) <=> (st.search.query # <<>>)
           /\ (p.regex # None) <=> (st.search.useRegex # FALSE)
           /\ (p.whitespace # None) <=> (st.search.filters.filterWhitespace # TRUE)
           /\ (p.punct # None) <=> (st.search.filters.filterPunctuation # FALSE)
           /\ (p.case # None) <=> (st.search.filters.caseSensitive # FALSE)
           /\ (p.corpus # None) <=> (st.corpus # None)
           /\ (st = defaultState) =>
                 \A k \in DOMAIN p : p[k] = None

C15_Witness ==
    /\ params # None
    /\ \A k \in DOMAIN params[1] : params[1][k] # None
    /\ currentState.search.limit = 12

\* C17 as stated: for every state, with any of the five table types active,
\* deserializing the serialized state over the defaults restores the active
\* type, the query, useRegex, the limit and the FilterSettings.
C17_LocatorRoundTrip ==
    (restored # None) =>
        /\ restored[1].selectedNGramType = currentState.selectedNGramType
        /\ restored[1].search.query = currentState.search.query
        /\ restored[1].search.useRegex = currentState.search.useRegex
        /\ restored[1].search.limit = currentState.search.limit
        /\ restored[1].search.filters = currentState.search.filters

----------------------------------------------------------------------------
(* Properties of the explorer *)

\* C16 as stated: when initializeCorpusExplorer has run with a locator that
\* leaves out whitespace, punct, case or limit, the setting left out has its
\* default: filterWhitespace true, filterPunctuation false, caseSensitive
\* false, limit 0.
C16_AbsentKeysDefault ==
    (event = "initializeCorpusExplorer") =>
        /\ (location.whitespace = None) =>
               currentState.search.filters.filterWhitespace = TRUE
        /\ (location.punct = None) =>
               currentState.search.filters.filterPunctuation = FALSE
        /\ (location.case = None) =>
               currentState.search.filters.caseSensitive = FALSE
        /\ (location.limit = None) => currentState.search.limit = 0

\* C21: while a corpus is loaded and the analysis section exists, every
\* member of the stored analysis (the ranked lists and the totals) is the one
\* calculateFilteredNGrams returns for the text of the current corpus and the
\* current FilterSettings.
C21_AnalysisCurrent ==
    (currentState.corpus # None /\ analysisSection) =>
        /\ currentState.analysis # None
        /\ LET current == calculateFilteredNGrams(currentState.corpus[1].text,
                                                  currentState.search.filters)
           IN \A member \in DOMAIN currentState.analysis[1] :
                  currentState.analysis[1][member] = current[member]

\* the preset load started from the locator has completed under filters
\* that an earlier event had changed
C21_Witness ==
    /\ event = "presetLoaded"
    /\ currentState.corpus # None
    /\ currentState.search.filters.filterWhitespace = FALSE
    /\ currentState.analysis # None
    /\ Len(currentState.analysis[1].bigrams) = 2

\* C22: a step of handleSearchChange or handleNGramTypeChange leaves the
\* FilterSettings, the loaded corpus and the stored analysis (lists and
\* totals) as they were, whatever filters the incoming settings carry.
C22_SearchAndTypeFrame ==
    [][(event' \in {"handleSearchChange", "handleNGramTypeChange"}) =>
           /\ currentState'.search.filters = currentState.search.filters
           /\ currentState'.corpus = currentState.corpus
           /\ currentState'.analysis = currentState.analysis]_vars

\* a search change has run under filters that differ from both filter
\* values the search panel reports
C22_Witness ==
    /\ event = "handleSearchChange"
    /\ currentState.search.query # <<>>
    /\ currentState.search.limit > 0
    /\ currentState.search.filters.filterWhitespace = FALSE
    /\ currentState.search.filters.filterPunctuation = FALSE
    /\ currentState.analysis # None
    /\ currentState.analysis[1].totals.bigrams = 2

\* the value the corpus parameter has for a corpus: its preset name, or
\* custom for an uploaded file
CorpusParameter(corpus) == IF corpus.isCustom THEN "custom" ELSE corpus.name

\* C23 as stated: once no preset load is pending, the corpus parameter of
\* the locator names the corpus that is loaded; and when a load started from
\* the locator completes after the user has loaded a file (the locator says
\* custom), the user's corpus is still the one loaded.
C23_LocatorNamesCorpus ==
    /\ (pendingLoads = <<>> /\ currentState.corpus # None) =>
           location.corpus = Some(CorpusParameter(currentState.corpus[1]))
    /\ (event = "presetLoaded" /\ location.corpus = Some("custom")) =>
           currentState.corpus = Some(CustomCorpus)

\* C24 as stated: the analysis stored by performAnalysis for a loaded corpus
\* has, for each of the five table types, the ranked list and the total that
\* calculateFilteredNGrams returns.
C24_FiveTables ==
    (currentState.corpus # None /\ currentState.analysis # None) =>
        LET returned == calculateFilteredNGrams(currentState.corpus[1].text,
                                                currentState.search.filters)
            results == currentState.analysis[1]
        IN \A type \in NGramTypes :
               /\ type \in DOMAIN results
               /\ results[type] = returned[type]
               /\ results.totals[type] = returned.totals[type]

====
